---- MODULE Spec2Model ----
(***************************************************************************)
(* Client records and the file-backed repositories (ClientRepJson,         *)
(* ClientRepYaml) of lab2/Cl2.py.                                          *)
(*                                                                         *)
(* Strings are sequences of ASCII codes, so that validation (strip,        *)
(* isalpha, the phone pattern) and the ordering used by sort are computed  *)
(* as Python computes them.  None is the empty tuple and the integer i is  *)
(* the one-element tuple <<i>>, so that an identifier is always comparable *)
(* with None.                                                              *)
(***************************************************************************)
EXTENDS Integers, Sequences, FiniteSets, TLC

VARIABLES kind, file, constructed, clients, ret, usedIds, addsOnly, addLog

(* ClientRepDB: the class attribute _instance, whether a caller holds the  *)
(* object, the clients table of the server, the last statement sent, and   *)
(* counts of the objects created, connections opened and create_table runs *)
VARIABLES instance, handle, table, lastQuery, dbLog

dbVars == <<instance, handle, table, lastQuery, dbLog>>

vars == <<kind, file, constructed, clients, ret, usedIds, addsOnly, addLog, dbVars>>

---------------------------------------------------------------------------
(* Bounds of the model *)

MaxLen == 2
MaxId == 2
MaxPage == 3
MaxPageSize == 2

---------------------------------------------------------------------------
(* Values *)

None == <<>>
Some(i) == <<i>>

Ivanov == <<73, 118, 97, 110, 111, 118>>
Adams == <<65, 100, 97, 109, 115>>
Ivan == <<73, 118, 97, 110>>
Zoe == <<90, 111, 101>>
Ivanovich == <<73, 118, 97, 110, 111, 118, 105, 99, 104>>
MainSt1 == <<77, 97, 105, 110, 32, 83, 116, 32, 49>>
ElmRd == <<69, 108, 109, 32, 82, 100>>
Phone1 == <<43, 49, 45, 53, 53, 53, 45, 49, 50, 51, 45, 52, 53, 54, 55>>
Phone7 == <<43, 55, 45, 57, 48, 48, 45, 48, 48, 48, 45, 53, 49, 53, 48>>
EmptyStr == <<>>
Blank == <<32>>
Ivan4 == <<73, 118, 97, 110, 52>>
BarePhone == <<53, 53, 53, 49, 50, 51, 52, 53, 54, 55>>

FieldNames == {"surname", "name", "patronymic", "address", "phone", "client_id"}

Data(s, n, p, a, ph) == [surname |-> s, name |-> n, patronymic |-> p, address |-> a, phone |-> ph]

PersonA == Data(Ivanov, Ivan, Ivanovich, MainSt1, Phone1)
PersonB == Data(Adams, Zoe, Ivanovich, ElmRd, Phone7)

ValidData == {PersonA, PersonB}

InvalidData == {Data(EmptyStr, Ivan, Ivanovich, MainSt1, Phone1),
                Data(Ivanov, Ivan4, Ivanovich, MainSt1, Phone1),
                Data(Ivanov, Ivan, EmptyStr, MainSt1, Phone1),
                Data(Ivanov, Ivan, Ivanovich, Blank, Phone1),
                Data(Ivanov, Ivan, Ivanovich, MainSt1, BarePhone)}

IdInputs == {None} \cup {Some(i) : i \in 1..MaxId}

---------------------------------------------------------------------------
(* str methods and the phone pattern *)

IsSpace(c) == c \in {9, 10, 11, 12, 13, 32}
IsLetter(c) == (c >= 65 /\ c <= 90) \/ (c >= 97 /\ c <= 122)
IsDigit(c) == c >= 48 /\ c <= 57

RECURSIVE lstrip(_)
lstrip(s) == IF s # <<>> /\ IsSpace(Head(s)) THEN lstrip(Tail(s)) ELSE s

RECURSIVE rstrip(_)
rstrip(s) == IF s # <<>> /\ IsSpace(s[Len(s)]) THEN rstrip(SubSeq(s, 1, Len(s) - 1)) ELSE s

strip(s) == rstrip(lstrip(s))

replace_spaces(s) == SelectSeq(s, LAMBDA c : c # 32)

isalpha(s) == s # <<>> /\ \A i \in 1..Len(s) : IsLetter(s[i])

AllDigits(s, from, to) == \A i \in from..to : IsDigit(s[i])

(* ^\+\d{1,3}-\d{3}-\d{3}-\d{4}$ on a string without its optional final newline *)
PhoneBody(s) ==
    \E d \in 1..3 :
        /\ Len(s) = d + 14
        /\ s[1] = 43
        /\ AllDigits(s, 2, d + 1)
        /\ s[d + 2] = 45
        /\ AllDigits(s, d + 3, d + 5)
        /\ s[d + 6] = 45
        /\ AllDigits(s, d + 7, d + 9)
        /\ s[d + 10] = 45
        /\ AllDigits(s, d + 11, d + 14)

(* re.match: $ also matches just before a newline that ends the string *)
re_match(s) ==
    \/ PhoneBody(s)
    \/ s # <<>> /\ s[Len(s)] = 10 /\ PhoneBody(SubSeq(s, 1, Len(s) - 1))

RECURSIVE StrLess(_, _)
StrLess(a, b) ==
    IF b = <<>> THEN FALSE
    ELSE IF a = <<>> THEN TRUE
    ELSE IF Head(a) # Head(b) THEN Head(a) < Head(b)
    ELSE StrLess(Tail(a), Tail(b))

---------------------------------------------------------------------------
(* class Client *)

validate_value(value, is_required, only_letters, regex) ==
    IF is_required /\ strip(value) = <<>> THEN "ValueError"
    ELSE IF only_letters /\ ~isalpha(replace_spaces(value)) THEN "ValueError"
    ELSE IF regex /\ ~re_match(value) THEN "ValueError"
    ELSE ""

(* Client.__init__: the exception raised, "" when the object is built *)
ClientExc(d) ==
    IF validate_value(d.surname, TRUE, TRUE, FALSE) # "" THEN "ValueError"
    ELSE IF validate_value(d.name, TRUE, TRUE, FALSE) # "" THEN "ValueError"
    ELSE IF validate_value(d.patronymic, FALSE, TRUE, FALSE) # "" THEN "ValueError"
    ELSE IF validate_value(d.address, TRUE, FALSE, FALSE) # "" THEN "ValueError"
    ELSE IF validate_value(d.phone, TRUE, FALSE, TRUE) # "" THEN "ValueError"
    ELSE ""

Client(d, client_id) ==
    [surname |-> d.surname, name |-> d.name, patronymic |-> d.patronymic,
     address |-> d.address, phone |-> d.phone, client_id |-> client_id]

get_client_id(c) == c.client_id

to_dict(c) ==
    [surname |-> c.surname, name |-> c.name, patronymic |-> c.patronymic,
     address |-> c.address, phone |-> c.phone, client_id |-> c.client_id]

DataOf(c) == Data(c.surname, c.name, c.patronymic, c.address, c.phone)

---------------------------------------------------------------------------
(* The file: a missing file, or the document a parser returns for it *)

Missing == [tag |-> "missing"]
Document(recs) == [tag |-> "list", recs |-> recs]

Max(S) == CHOOSE m \in S : \A x \in S : x <= m

(* The loop of read_all over the parsed list; a Client that fails to       *)
(* validate, or a record without a required key, ends the loop by raising. *)
RECURSIVE load_records(_)
load_records(recs) ==
    IF recs = <<>> THEN [exc |-> "", value |-> <<>>]
    ELSE LET client_data == Head(recs)
             client_id == IF "client_id" \in DOMAIN client_data THEN client_data.client_id ELSE None
         IN IF {"surname", "name", "address", "phone"} \ DOMAIN client_data # {}
            THEN [exc |-> "KeyError", value |-> <<>>]
            ELSE LET d == Data(client_data.surname, client_data.name,
                               IF "patronymic" \in DOMAIN client_data
                               THEN client_data.patronymic ELSE EmptyStr,
                               client_data.address, client_data.phone)
                     rest == load_records(Tail(recs))
                 IN IF ClientExc(d) # "" THEN [exc |-> ClientExc(d), value |-> <<>>]
                    ELSE IF rest.exc # "" THEN rest
                    ELSE [exc |-> "", value |-> <<Client(d, client_id)>> \o rest.value]

(* read_all: the exception that escapes it, the list it returns and        *)
(* whether it printed a diagnostic.  Only FileNotFoundError and the        *)
(* parser's own error (JSONDecodeError, YAMLError) are caught; the YAML    *)
(* variant also returns [] for a document that is None.                    *)
read_all(k, f) ==
    IF f.tag = "missing" THEN [exc |-> "", value |-> <<>>, diag |-> (k = "yaml")]
    ELSE IF f.tag = "invalid" THEN [exc |-> "", value |-> <<>>, diag |-> TRUE]
    ELSE IF f.tag = "null" /\ k = "yaml" THEN [exc |-> "", value |-> <<>>, diag |-> TRUE]
    ELSE IF f.tag \in {"null", "scalar"} THEN [exc |-> "TypeError", value |-> <<>>, diag |-> FALSE]
    ELSE IF f.tag = "mapping" THEN [exc |-> "AttributeError", value |-> <<>>, diag |-> FALSE]
    ELSE [exc |-> load_records(f.recs).exc, value |-> load_records(f.recs).value, diag |-> FALSE]

get_count(cl) == Len(cl)

IdsOf(cl) == {get_client_id(cl[i])[1] : i \in {j \in 1..Len(cl) : get_client_id(cl[j]) # None}}

(* max(..., default=1) *)
get_new_client_id_default_one(cl) == (IF IdsOf(cl) = {} THEN 1 ELSE Max(IdsOf(cl))) + 1

get_new_client_id(cl) == (IF IdsOf(cl) = {} THEN 0 ELSE Max(IdsOf(cl))) + 1

save_all(cl) ==
    Document([i \in 1..Len(cl) |->
        IF to_dict(cl[i]).client_id = None
        THEN [to_dict(cl[i]) EXCEPT !.client_id = Some(get_new_client_id(cl))]
        ELSE to_dict(cl[i])])

Matches(cl, client_id) == {i \in 1..Len(cl) : get_client_id(cl[i]) = client_id}

get_by_id(cl, client_id) ==
    IF Matches(cl, client_id) = {} THEN [exc |-> "ValueError", value |-> None]
    ELSE [exc |-> "", value |-> cl[CHOOSE i \in Matches(cl, client_id) :
                                      \A j \in Matches(cl, client_id) : i <= j]]

(* list[start:end] with Python's treatment of negative and oversized indices *)
SliceIndex(i, len) == IF i < 0 THEN (IF i + len < 0 THEN 0 ELSE i + len)
                      ELSE (IF i > len THEN len ELSE i)

Slice(s, start, end) == SubSeq(s, SliceIndex(start, Len(s)) + 1, SliceIndex(end, Len(s)))

(* start = k * n: pages counted from 0 *)
get_k_n_short_list_from_zero(cl, k, n) ==
    LET start == k * n
        end == start + n
    IN Slice(cl, start, end)

get_k_n_short_list(cl, k, n) ==
    LET start == (k - 1) * n
        end == start + n
    IN Slice(cl, start, end)

getattr(c, field) == c[field]

KeyLess(field, a, b) == IF field = "client_id" THEN a[1] < b[1] ELSE StrLess(a, b)

(* x goes in front of the first element whose key is greater than its own *)
RECURSIVE InsertByKey(_, _, _)
InsertByKey(field, x, s) ==
    IF s = <<>> THEN <<x>>
    ELSE IF KeyLess(field, getattr(x, field), getattr(Head(s), field)) THEN <<x>> \o s
    ELSE <<Head(s)>> \o InsertByKey(field, x, Tail(s))

RECURSIVE Sorted(_, _)
Sorted(field, s) ==
    IF s = <<>> THEN <<>>
    ELSE InsertByKey(field, s[Len(s)], Sorted(field, SubSeq(s, 1, Len(s) - 1)))

Orderings(s) ==
    {[i \in 1..Len(s) |-> s[p[i]]] :
        p \in {q \in [1..Len(s) -> 1..Len(s)] : \A i, j \in 1..Len(s) : q[i] = q[j] => i = j}}

(* list.sort(key=...): the exception and the lists it can leave behind.    *)
(* Keys are computed first (AttributeError leaves the list alone); an      *)
(* unorderable key (None) makes a comparison raise TypeError and the list  *)
(* is left in some order of its elements.                                  *)
sort_exc(cl, field) ==
    IF cl # <<>> /\ field \notin FieldNames THEN "AttributeError"
    ELSE IF field = "client_id" /\ Len(cl) >= 2 /\ \E i \in 1..Len(cl) : cl[i].client_id = None
    THEN "TypeError"
    ELSE ""

sort_results(cl, field) ==
    IF sort_exc(cl, field) = "AttributeError" THEN {cl}
    ELSE IF sort_exc(cl, field) = "TypeError" THEN Orderings(cl)
    ELSE {Sorted(field, cl)}

---------------------------------------------------------------------------
(* Construction *)

InitRecs == {to_dict(Client(d, i)) : d \in ValidData, i \in IdInputs}

(* records of a file that the program did not write itself *)
WithoutKey(r, key) == [k \in DOMAIN r \ {key} |-> r[k]]

NoPatronymic == Data(Ivanov, Ivan, EmptyStr, MainSt1, Phone1)

OddRecs ==
    {WithoutKey(to_dict(Client(PersonA, Some(1))), "phone"),
     WithoutKey(to_dict(Client(PersonA, Some(1))), "patronymic"),
     WithoutKey(to_dict(Client(PersonA, Some(1))), "client_id"),
     to_dict(Client(NoPatronymic, Some(1))),
     to_dict(Client(Data(Ivanov, Ivan4, Ivanovich, MainSt1, Phone1), Some(1)))}

OddFiles ==
    {[tag |-> "invalid"], [tag |-> "null"], [tag |-> "scalar"], [tag |-> "mapping"]}
    \cup {Document(<<r>>) : r \in OddRecs}
    \cup {Document(<<to_dict(Client(PersonB, Some(2))), r>>) : r \in OddRecs}

InitFiles ==
    {Missing, Document(<<>>)}
    \cup {Document(<<r>>) : r \in InitRecs}
    \cup {Document(<<r1, r2>>) : r1 \in InitRecs, r2 \in InitRecs}
    \cup OddFiles

Result(op, args, exc, value) == [op |-> op, args |-> args, exc |-> exc, value |-> value]

(* no call is in progress and the last result has been taken by the caller *)
Idle == Result("", <<>>, "", None)

Callable == constructed /\ ret.op = ""

(* class ClientRepDB before the first construction *)
NoInstance == [exists |-> FALSE]

NoQuery == [text |-> "", field |-> ""]

Init ==
    /\ kind \in {"json", "yaml"}
    /\ file \in InitFiles
    /\ constructed = (read_all(kind, file).exc = "")
    /\ clients = read_all(kind, file).value
    /\ ret = Result("__init__", <<>>, read_all(kind, file).exc, None)
    /\ usedIds = IdsOf(clients)
    /\ addsOnly = (file = Missing)
    /\ addLog = <<>>
    /\ instance = NoInstance
    /\ handle = FALSE
    /\ table = [exists |-> FALSE, rows |-> <<>>, serial |-> 0]
    /\ lastQuery = NoQuery
    /\ dbLog = [objects |-> 0, opened |-> 0, tableRuns |-> 0, ensured |-> FALSE,
                first |-> None]

---------------------------------------------------------------------------
(* Operations of ClientRepJson / ClientRepYaml *)

History(cl) == usedIds' = usedIds \cup IdsOf(cl)

NoLongerAddsOnly == addsOnly' = FALSE /\ addLog' = <<>>

(* the record is appended before its fields are validated *)
add_client_appends_first(d) ==
    /\ Callable
    /\ Len(clients) < MaxLen
    /\ get_new_client_id(clients) <= MaxId
    /\ clients' = Append(clients, Client(d, Some(get_new_client_id(clients))))
    /\ IF ClientExc(d) # ""
       THEN /\ ret' = Result("add_client", <<d>>, ClientExc(d), None)
            /\ UNCHANGED <<file, usedIds, addsOnly, addLog>>
       ELSE /\ file' = save_all(clients')
            /\ ret' = Result("add_client", <<d>>, "", None)
            /\ History(clients')
            /\ addsOnly' = addsOnly
            /\ addLog' = IF addsOnly THEN Append(addLog, d) ELSE addLog
    /\ UNCHANGED <<dbVars, kind, constructed>>

add_client(d) ==
    /\ Callable
    /\ Len(clients) < MaxLen
    /\ get_new_client_id(clients) <= MaxId
    /\ LET new_id == get_new_client_id(clients)
       IN IF ClientExc(d) # ""
          THEN /\ ret' = Result("add_client", <<d>>, ClientExc(d), None)
               /\ UNCHANGED <<clients, file, usedIds, addsOnly, addLog>>
          ELSE /\ clients' = Append(clients, Client(d, Some(new_id)))
               /\ file' = save_all(clients')
               /\ ret' = Result("add_client", <<d>>, "", None)
               /\ History(clients')
               /\ addsOnly' = addsOnly
               /\ addLog' = IF addsOnly THEN Append(addLog, d) ELSE addLog
    /\ UNCHANGED <<dbVars, kind, constructed>>

(* save_all() after the loop, whether or not a record matched *)
replace_by_id_always_saves(client_id, new_client) ==
    /\ Callable
    /\ IF Matches(clients, client_id) # {}
       THEN LET i == CHOOSE m \in Matches(clients, client_id) :
                        \A j \in Matches(clients, client_id) : m <= j
            IN /\ clients' = [clients EXCEPT ![i] = new_client]
               /\ ret' = Result("replace_by_id", <<client_id, new_client>>, "", TRUE)
               /\ NoLongerAddsOnly
       ELSE /\ ret' = Result("replace_by_id", <<client_id, new_client>>, "", FALSE)
            /\ UNCHANGED <<clients, addsOnly, addLog>>
    /\ file' = save_all(clients')
    /\ History(clients')
    /\ UNCHANGED <<dbVars, kind, constructed>>

replace_by_id(client_id, new_client) ==
    /\ Callable
    /\ IF Matches(clients, client_id) # {}
       THEN LET i == CHOOSE m \in Matches(clients, client_id) :
                        \A j \in Matches(clients, client_id) : m <= j
            IN /\ clients' = [clients EXCEPT ![i] = new_client]
               /\ file' = save_all(clients')
               /\ ret' = Result("replace_by_id", <<client_id, new_client>>, "", TRUE)
               /\ History(clients')
               /\ NoLongerAddsOnly
       ELSE /\ ret' = Result("replace_by_id", <<client_id, new_client>>, "", FALSE)
            /\ UNCHANGED <<clients, file, usedIds, addsOnly, addLog>>
    /\ UNCHANGED <<dbVars, kind, constructed>>

(* the record leaves the collection but the file is not written *)
delete_by_id_without_save(client_id) ==
    /\ Callable
    /\ clients' = SelectSeq(clients, LAMBDA c : get_client_id(c) # client_id)
    /\ ret' = Result("delete_by_id", <<client_id>>, "", None)
    /\ History(clients')
    /\ NoLongerAddsOnly
    /\ UNCHANGED <<dbVars, kind, constructed, file>>

delete_by_id(client_id) ==
    /\ Callable
    /\ clients' = SelectSeq(clients, LAMBDA c : get_client_id(c) # client_id)
    /\ file' = save_all(clients')
    /\ ret' = Result("delete_by_id", <<client_id>>, "", None)
    /\ History(clients')
    /\ NoLongerAddsOnly
    /\ UNCHANGED <<dbVars, kind, constructed>>

sort_by_field(field) ==
    /\ Callable
    /\ clients' \in sort_results(clients, field)
    /\ ret' = Result("sort_by_field", <<field>>, sort_exc(clients, field), None)
    /\ NoLongerAddsOnly
    /\ UNCHANGED <<dbVars, kind, constructed, file, usedIds>>

GetById(client_id) ==
    /\ Callable
    /\ ret' = Result("get_by_id", <<client_id>>,
                     get_by_id(clients, client_id).exc, get_by_id(clients, client_id).value)
    /\ UNCHANGED <<dbVars, kind, constructed, file, clients, usedIds, addsOnly, addLog>>

GetKNShortList(k, n) ==
    /\ Callable
    /\ ret' = Result("get_k_n_short_list", <<k, n>>, "", get_k_n_short_list(clients, k, n))
    /\ UNCHANGED <<dbVars, kind, constructed, file, clients, usedIds, addsOnly, addLog>>

ReadAll ==
    /\ Callable
    /\ ret' = Result("read_all", <<>>, read_all(kind, file).exc, read_all(kind, file).value)
    /\ UNCHANGED <<dbVars, kind, constructed, file, clients, usedIds, addsOnly, addLog>>

GetCount ==
    /\ Callable
    /\ ret' = Result("get_count", <<>>, "", get_count(clients))
    /\ UNCHANGED <<dbVars, kind, constructed, file, clients, usedIds, addsOnly, addLog>>

SaveAll ==
    /\ Callable
    /\ file' = save_all(clients)
    /\ ret' = Result("save_all", <<>>, "", None)
    /\ UNCHANGED <<dbVars, kind, constructed, clients, usedIds, addsOnly, addLog>>

(* the caller takes the result of the call (or of the constructor) *)
Return ==
    /\ ret.op # ""
    /\ ret' = Idle
    /\ UNCHANGED <<dbVars, kind, constructed, file, clients, usedIds, addsOnly, addLog>>

NewClients == {Client(d, i) : d \in ValidData, i \in IdInputs}

SortFields == FieldNames \cup {"email"}

AddClientStep == \E d \in ValidData \cup InvalidData : add_client(d)
ReplaceByIdStep == \E i \in IdInputs, c \in NewClients : replace_by_id(i, c)
DeleteByIdStep == \E i \in IdInputs : delete_by_id(i)
SortByFieldStep == \E f \in SortFields : sort_by_field(f)
GetByIdStep == \E i \in IdInputs : GetById(i)
GetKNShortListStep == \E k \in (0 - MaxPage)..MaxPage, n \in 1..MaxPageSize : GetKNShortList(k, n)

Next ==
    \/ AddClientStep
    \/ ReplaceByIdStep
    \/ DeleteByIdStep
    \/ SortByFieldStep
    \/ GetByIdStep
    \/ GetKNShortListStep
    \/ ReadAll
    \/ GetCount
    \/ SaveAll
    \/ Return

Spec == Init /\ [][Next]_vars

---------------------------------------------------------------------------
(* Other specifications *)

DistinctNonNull(f) ==
    \/ f.tag = "missing"
    \/ /\ f.tag = "list"
       /\ \A i \in 1..Len(f.recs) : "client_id" \in DOMAIN f.recs[i] /\ f.recs[i].client_id # None
       /\ \A i, j \in 1..Len(f.recs) : i # j => f.recs[i].client_id # f.recs[j].client_id

(* repositories built on a missing file or on a file of distinct non-null identifiers *)
InitDistinct == Init /\ DistinctNonNull(file)

SpecDistinct == InitDistinct /\ [][Next]_vars

(* callers that only add and delete *)
NextAddDel ==
    \/ AddClientStep
    \/ DeleteByIdStep
    \/ Return

SpecAddDel == Init /\ [][NextAddDel]_vars

---------------------------------------------------------------------------
(* class ClientRepDB and ClientRepDBAdapter *)

fileVars == <<kind, file, constructed, clients, usedIds, addsOnly, addLog>>

Columns == {"client_id", "surname", "name", "patronymic", "address", "phone"}

Credentials(db_name, user, password) ==
    [db_name |-> db_name, user |-> user, password |-> password,
     host |-> "localhost", port |-> "5432"]

CredInputs == {Credentials("Clients", "blanc", "1"), Credentials("Other", "root", "2")}

DbCallable == ret.op = ""

(* what a statement run through self.conn raises before it reaches a table *)
conn_exc ==
    IF instance.conn = None THEN "AttributeError"
    ELSE IF instance.conn[1].closed THEN "InterfaceError"
    ELSE IF ~table.exists THEN "UndefinedTable"
    ELSE ""

(* the loop that builds a Client from each fetched row *)
RECURSIVE clients_of_rows(_)
clients_of_rows(rows) ==
    IF rows = <<>> THEN [exc |-> "", value |-> <<>>]
    ELSE IF ClientExc(DataOf(Head(rows))) # ""
    THEN [exc |-> ClientExc(DataOf(Head(rows))), value |-> <<>>]
    ELSE IF clients_of_rows(Tail(rows)).exc # "" THEN clients_of_rows(Tail(rows))
    ELSE [exc |-> "",
          value |-> <<Client(DataOf(Head(rows)), Head(rows).client_id)>>
                    \o clients_of_rows(Tail(rows)).value]

(* the orders in which ORDER BY field may return the rows *)
OrderBy(rows, field) ==
    {o \in Orderings(rows) :
        \A i, j \in 1..Len(o) :
            i < j => ~KeyLess(field, getattr(o[j], field), getattr(o[i], field))}

(* a new object and a new connection whenever the database name differs *)
NewClientRepDB_per_database(c, connects, creates) ==
    /\ DbCallable
    /\ dbLog.objects < MaxLen
    /\ IF ~instance.exists \/ instance.creds.db_name # c.db_name
       THEN IF ~connects
            THEN /\ instance' = [exists |-> TRUE, oid |-> dbLog.objects + 1, creds |-> c, conn |-> None]
                 /\ ret' = Result("ClientRepDB", <<c>>, "OperationalError", None)
                 /\ dbLog' = [dbLog EXCEPT !.objects = @ + 1,
                                           !.first = IF @ = None THEN Some(c) ELSE @]
                 /\ UNCHANGED <<handle, table>>
            ELSE /\ instance' = [exists |-> TRUE, oid |-> dbLog.objects + 1, creds |-> c,
                                 conn |-> Some([id |-> dbLog.opened + 1, closed |-> FALSE])]
                 /\ dbLog' = [dbLog EXCEPT !.objects = @ + 1, !.opened = @ + 1,
                                           !.tableRuns = @ + 1, !.ensured = creates,
                                           !.first = IF @ = None THEN Some(c) ELSE @]
                 /\ IF creates
                    THEN /\ table' = [table EXCEPT !.exists = TRUE]
                         /\ handle' = TRUE
                         /\ ret' = Result("ClientRepDB", <<c>>, "", Some(dbLog.objects + 1))
                    ELSE /\ ret' = Result("ClientRepDB", <<c>>, "ProgrammingError", None)
                         /\ UNCHANGED <<handle, table>>
       ELSE /\ handle' = TRUE
            /\ ret' = Result("ClientRepDB", <<c>>, "", Some(instance.oid))
            /\ dbLog' = [dbLog EXCEPT !.first = IF @ = None THEN Some(c) ELSE @]
            /\ UNCHANGED <<instance, table>>
    /\ UNCHANGED <<fileVars, lastQuery>>

(* ClientRepDB(db_name, user, password): __new__ with connect_to_db and    *)
(* create_table; connects and creates say whether the server accepts the   *)
(* connection and the CREATE TABLE statement.                              *)
NewClientRepDB(c, connects, creates) ==
    /\ DbCallable
    /\ IF ~instance.exists
       THEN IF ~connects
            THEN /\ instance' = [exists |-> TRUE, oid |-> dbLog.objects + 1, creds |-> c, conn |-> None]
                 /\ ret' = Result("ClientRepDB", <<c>>, "OperationalError", None)
                 /\ dbLog' = [dbLog EXCEPT !.objects = @ + 1,
                                           !.first = IF @ = None THEN Some(c) ELSE @]
                 /\ UNCHANGED <<handle, table>>
            ELSE /\ instance' = [exists |-> TRUE, oid |-> dbLog.objects + 1, creds |-> c,
                                 conn |-> Some([id |-> dbLog.opened + 1, closed |-> FALSE])]
                 /\ dbLog' = [dbLog EXCEPT !.objects = @ + 1, !.opened = @ + 1,
                                           !.tableRuns = @ + 1, !.ensured = creates,
                                           !.first = IF @ = None THEN Some(c) ELSE @]
                 /\ IF creates
                    THEN /\ table' = [table EXCEPT !.exists = TRUE]
                         /\ handle' = TRUE
                         /\ ret' = Result("ClientRepDB", <<c>>, "", Some(dbLog.objects + 1))
                    ELSE /\ ret' = Result("ClientRepDB", <<c>>, "ProgrammingError", None)
                         /\ UNCHANGED <<handle, table>>
       ELSE /\ handle' = TRUE
            /\ ret' = Result("ClientRepDB", <<c>>, "", Some(instance.oid))
            /\ dbLog' = [dbLog EXCEPT !.first = IF @ = None THEN Some(c) ELSE @]
            /\ UNCHANGED <<instance, table>>
    /\ UNCHANGED <<fileVars, lastQuery>>

db_close ==
    /\ DbCallable
    /\ handle
    /\ IF instance.conn = None
       THEN /\ ret' = Result("ClientRepDB.close", <<>>, "AttributeError", None)
            /\ UNCHANGED instance
       ELSE /\ instance' = [instance EXCEPT !.conn = Some([@[1] EXCEPT !.closed = TRUE])]
            /\ ret' = Result("ClientRepDB.close", <<>>, "", None)
    /\ UNCHANGED <<fileVars, handle, table, lastQuery, dbLog>>

db_add_client(d) ==
    /\ DbCallable
    /\ handle
    /\ Len(table.rows) < MaxLen
    /\ table.serial < MaxId
    /\ IF conn_exc # ""
       THEN /\ ret' = Result("ClientRepDB.add_client", <<d>>, conn_exc, None)
            /\ UNCHANGED <<table, lastQuery>>
       ELSE /\ table' = [table EXCEPT !.serial = @ + 1,
                                      !.rows = Append(@, Client(d, Some(table.serial + 1)))]
            /\ lastQuery' = [text |-> "INSERT INTO clients", field |-> ""]
            /\ ret' = Result("ClientRepDB.add_client", <<d>>, "", Some(table.serial + 1))
    /\ UNCHANGED <<fileVars, instance, handle, dbLog>>

db_get_by_id(client_id) ==
    /\ DbCallable
    /\ handle
    /\ IF conn_exc # ""
       THEN /\ ret' = Result("ClientRepDB.get_by_id", <<client_id>>, conn_exc, None)
            /\ UNCHANGED lastQuery
       ELSE /\ lastQuery' = [text |-> "SELECT * FROM clients WHERE client_id = %s", field |-> ""]
            /\ LET found == SelectSeq(table.rows, LAMBDA r : r.client_id = client_id)
               IN ret' = IF found = <<>>
                         THEN Result("ClientRepDB.get_by_id", <<client_id>>, "ValueError", None)
                         ELSE Result("ClientRepDB.get_by_id", <<client_id>>,
                                     clients_of_rows(<<found[1]>>).exc,
                                     clients_of_rows(<<found[1]>>).value)
    /\ UNCHANGED <<fileVars, instance, handle, table, dbLog>>

db_read_all ==
    /\ DbCallable
    /\ handle
    /\ IF conn_exc # ""
       THEN /\ ret' = Result("ClientRepDB.read_all", <<>>, conn_exc, None)
            /\ UNCHANGED lastQuery
       ELSE /\ lastQuery' = [text |-> "SELECT * FROM clients", field |-> ""]
            /\ \E o \in Orderings(table.rows) :
                 ret' = Result("ClientRepDB.read_all", <<>>,
                               clients_of_rows(o).exc, clients_of_rows(o).value)
    /\ UNCHANGED <<fileVars, instance, handle, table, dbLog>>

(* the field goes into the statement text as it is; a name that is not a   *)
(* column makes the server reject the statement, and text after a          *)
(* semicolon is run as a statement of its own                              *)
db_sort_by_field(field) ==
    /\ DbCallable
    /\ handle
    /\ IF conn_exc # ""
       THEN /\ ret' = Result("ClientRepDB.sort_by_field", <<field>>, conn_exc, None)
            /\ UNCHANGED <<table, lastQuery>>
       ELSE /\ lastQuery' = [text |-> "SELECT * FROM clients ORDER BY ", field |-> field]
            /\ IF field \in Columns
               THEN /\ \E o \in OrderBy(table.rows, field) :
                         ret' = Result("ClientRepDB.sort_by_field", <<field>>,
                                       clients_of_rows(o).exc, clients_of_rows(o).value)
                    /\ UNCHANGED table
               ELSE IF field = "surname; DROP TABLE clients"
               THEN /\ table' = [table EXCEPT !.exists = FALSE, !.rows = <<>>]
                    /\ ret' = Result("ClientRepDB.sort_by_field", <<field>>, "ProgrammingError", None)
               ELSE /\ ret' = Result("ClientRepDB.sort_by_field", <<field>>, "UndefinedColumn", None)
                    /\ UNCHANGED table
    /\ UNCHANGED <<fileVars, instance, handle, dbLog>>

db_delete_by_id(client_id) ==
    /\ DbCallable
    /\ handle
    /\ IF conn_exc # ""
       THEN /\ ret' = Result("ClientRepDBAdapter.delete_by_id", <<client_id>>, conn_exc, None)
            /\ UNCHANGED <<table, lastQuery>>
       ELSE /\ table' = [table EXCEPT !.rows = SelectSeq(@, LAMBDA r : r.client_id # client_id)]
            /\ lastQuery' = [text |-> "DELETE FROM clients WHERE client_id = %s", field |-> ""]
            /\ ret' = Result("ClientRepDBAdapter.delete_by_id", <<client_id>>, "", None)
    /\ UNCHANGED <<fileVars, instance, handle, dbLog>>

DbSortFields == Columns \cup {"email", "surname; DROP TABLE clients"}

NewClientRepDBStep == \E c \in CredInputs, connects \in BOOLEAN, creates \in BOOLEAN :
                          NewClientRepDB(c, connects, creates)
DbAddClientStep == \E d \in ValidData \cup {NoPatronymic} : db_add_client(d)
DbGetByIdStep == \E i \in IdInputs : db_get_by_id(i)
DbSortByFieldStep == \E f \in DbSortFields : db_sort_by_field(f)
DbDeleteByIdStep == \E i \in IdInputs : db_delete_by_id(i)

NextDB ==
    \/ NewClientRepDBStep
    \/ db_close
    \/ DbAddClientStep
    \/ DbGetByIdStep
    \/ db_read_all
    \/ DbSortByFieldStep
    \/ DbDeleteByIdStep
    \/ Return

(* a process that uses the database repository only *)
InitDB == Init /\ kind = "json" /\ file = Missing

SpecDB == InitDB /\ [][NextDB]_vars

---------------------------------------------------------------------------
(* Properties *)

Returned(op) == ret.op = op /\ ret.exc = ""

InMemory(cl) == Document([i \in 1..Len(cl) |-> to_dict(cl[i])])

(* C1: when add_client, replace_by_id (returning True) or delete_by_id     *)
(* returns, the file holds exactly self.clients: same records, same order, *)
(* same five fields and the same client_id at every position.              *)
C1_FileEqualsMemory ==
    (\/ Returned("add_client")
     \/ Returned("delete_by_id")
     \/ (Returned("replace_by_id") /\ ret.value = TRUE))
    => file = InMemory(clients)

(* C2: no two records of the in-memory collection carry the same           *)
(* identifier, whatever add_client, replace_by_id, delete_by_id and        *)
(* sort_by_field calls were made on a repository that started from a       *)
(* missing file or from distinct non-null identifiers.                     *)
C2_IdsUnique ==
    \A i, j \in 1..Len(clients) :
        (i # j /\ clients[i].client_id # None) => clients[i].client_id # clients[j].client_id

(* C3: the identifier add_client gives to the new record was never carried *)
(* by any record of this repository before, deleted records included.      *)
C3_NeverReused ==
    [][(ret'.op = "add_client" /\ ret'.exc = "")
        => clients'[Len(clients')].client_id[1] \notin usedIds]_vars

(* C4: N add_client calls on a repository built on a missing file, with    *)
(* nothing else in between, leave N records carrying 1..N in the order     *)
(* they were added.                                                        *)
C4_SequentialIds ==
    addsOnly =>
        /\ Len(clients) = Len(addLog)
        /\ \A i \in 1..Len(clients) :
            /\ clients[i].client_id = Some(i)
            /\ DataOf(clients[i]) = addLog[i]

C4_Witness == addsOnly /\ Returned("add_client") /\ Len(clients) >= 2

(* C5: add_client returns the identifier it assigned, and get_by_id of     *)
(* that returned value gives a record with exactly the five fields passed. *)
C5_AddThenGet ==
    Returned("add_client") =>
        /\ ret.value = clients[Len(clients)].client_id
        /\ get_by_id(clients, ret.value).exc = ""
        /\ DataOf(get_by_id(clients, ret.value).value) = ret.args[1]

Bijections(n) == {q \in [1..n -> 1..n] : \A i, j \in 1..n : q[i] = q[j] => i = j}

StableAscending(field, before, after) ==
    /\ Len(after) = Len(before)
    /\ \E p \in Bijections(Len(before)) :
        /\ \A i \in 1..Len(after) : after[i] = before[p[i]]
        /\ \A i, j \in 1..Len(after) :
            i < j => /\ ~KeyLess(field, getattr(after[j], field), getattr(after[i], field))
                     /\ (getattr(after[i], field) = getattr(after[j], field) => p[i] < p[j])

SameRecords(a, b) ==
    /\ Len(a) = Len(b)
    /\ \A i \in 1..Len(a) :
        /\ DataOf(a[i]) = DataOf(b[i])
        /\ (b[i].client_id # None => a[i].client_id = b[i].client_id)

(* C6: sort_by_field(f) puts the in-memory collection in ascending order   *)
(* of f, a stable permutation of the previous order, leaves the file       *)
(* alone, and read_all called afterwards returns that sorted order.        *)
C6_SortThenReadAll ==
    [][(ret'.op = "sort_by_field" /\ ret'.exc = "" /\ ret'.args[1] \in FieldNames)
        => /\ StableAscending(ret'.args[1], clients, clients')
           /\ file' = file
           /\ read_all(kind', file').exc = ""
           /\ SameRecords(read_all(kind', file').value, clients')]_vars

RECURSIVE ConcatPages(_, _, _)
ConcatPages(cl, n, k) ==
    IF get_k_n_short_list(cl, k, n) = <<>> THEN <<>>
    ELSE get_k_n_short_list(cl, k, n) \o ConcatPages(cl, n, k + 1)

(* C7: for every page size n >= 1 the pages 1, 2, 3, ... up to the first   *)
(* empty one, put end to end, are the in-memory collection.                *)
C7_PagesReconstruct ==
    \A n \in 1..MaxPageSize : ConcatPages(clients, n, 1) = clients

C7_Witness ==
    /\ Returned("get_k_n_short_list")
    /\ ret.args[1] = 2
    /\ ret.value # <<>>
    /\ ret.value # clients

ExpectedPage(cl, k, n) ==
    LET lo == IF (k - 1) * n < 0 THEN 0 ELSE (k - 1) * n
        hi == IF k * n > Len(cl) THEN Len(cl) ELSE k * n
    IN IF hi <= lo THEN <<>> ELSE [i \in 1..(hi - lo) |-> cl[lo + i]]

(* C8: get_k_n_short_list(k, n) never fails and returns the records at the *)
(* 0-based positions (k-1)*n <= i < k*n that exist; pages out of range,    *)
(* k <= 0 included, are empty.                                             *)
C8_PageSlice ==
    ret.op = "get_k_n_short_list" =>
        /\ ret.exc = ""
        /\ ret.value = ExpectedPage(clients, ret.args[1], ret.args[2])
        /\ (ret.args[1] <= 0 => ret.value = <<>>)

(* C9: a replace_by_id(id, newRecord) that finds id returns True, keeps    *)
(* the length and every other record, puts newRecord's data at the matched *)
(* position, and get_by_id(id) afterwards returns newRecord's five fields. *)
C9_ReplaceKeepsKey ==
    [][(ret'.op = "replace_by_id" /\ Matches(clients, ret'.args[1]) # {})
        => /\ ret'.exc = ""
           /\ ret'.value = TRUE
           /\ Len(clients') = Len(clients)
           /\ \E i \in Matches(clients, ret'.args[1]) :
                /\ DataOf(clients'[i]) = DataOf(ret'.args[2])
                /\ \A j \in 1..Len(clients) : j # i => clients'[j] = clients[j]
           /\ get_by_id(clients', ret'.args[1]).exc = ""
           /\ DataOf(get_by_id(clients', ret'.args[1]).value) = DataOf(ret'.args[2])]_vars

(* C10: a replace_by_id(id, newRecord) on a repository without a record    *)
(* carrying id returns False, raises nothing and changes neither the       *)
(* in-memory collection nor the file.                                      *)
C10_ReplaceMissingNoOp ==
    [][(ret'.op = "replace_by_id" /\ Matches(clients, ret'.args[1]) = {})
        => /\ ret'.exc = ""
           /\ ret'.value = FALSE
           /\ clients' = clients
           /\ file' = file]_vars

C10_Witness ==
    /\ Returned("replace_by_id")
    /\ ret.value = FALSE
    /\ clients # <<>>
    /\ file # save_all(clients)

(* C11: delete_by_id(id) on a repository without a record carrying id      *)
(* raises nothing and changes neither the in-memory collection nor the     *)
(* file, also when sort_by_field was called since the last save.           *)
C11_DeleteMissingNoOp ==
    [][(ret'.op = "delete_by_id" /\ Matches(clients, ret'.args[1]) = {})
        => /\ ret'.exc = ""
           /\ clients' = clients
           /\ file' = file]_vars

(* C12: after delete_by_id(id) no record with identifier id is left in the *)
(* in-memory collection or in the file, get_by_id(id) fails with 'not      *)
(* found', the other records remain in their order and get_count went down *)
(* by the number of records that carried id.                               *)
C12_DeleteRemoves ==
    [][ret'.op = "delete_by_id"
        => /\ ret'.exc = ""
           /\ Matches(clients', ret'.args[1]) = {}
           /\ file'.tag = "list"
           /\ \A i \in 1..Len(file'.recs) : file'.recs[i].client_id # ret'.args[1]
           /\ get_by_id(clients', ret'.args[1]).exc = "ValueError"
           /\ clients' = SelectSeq(clients, LAMBDA c : c.client_id # ret'.args[1])
           /\ get_count(clients') =
                get_count(clients) - Cardinality(Matches(clients, ret'.args[1]))]_vars

(* C13: constructing a repository never raises on a load failure: a        *)
(* missing file gives an empty collection, malformed content (invalid      *)
(* syntax, a document that is not a list of record mappings, a record      *)
(* without a required key, a record that fails validation) gives an empty  *)
(* collection and a diagnostic.                                            *)
C13_LoadNeverAborts ==
    ret.op = "__init__" =>
        /\ ret.exc = ""
        /\ constructed
        /\ (file.tag # "list" => clients = <<>>)
        /\ (file.tag \in {"invalid", "scalar", "mapping"} => read_all(kind, file).diag)

(* C14: a file written by save_all has no null client_id, and an           *)
(* identifier given while serializing to a record that had none differs    *)
(* from every other identifier of that file, also when several records     *)
(* lacked one.                                                             *)
C14_SavedIdsFresh ==
    (\/ Returned("save_all")
     \/ Returned("add_client")
     \/ Returned("delete_by_id")
     \/ (Returned("replace_by_id") /\ ret.value = TRUE))
    => /\ file.tag = "list"
       /\ Len(file.recs) = Len(clients)
       /\ \A i \in 1..Len(clients) :
            /\ file.recs[i].client_id # None
            /\ clients[i].client_id = None =>
                 \A j \in 1..Len(clients) : j # i => file.recs[j].client_id # file.recs[i].client_id

(* validity of the five fields as the data model states it: letters for    *)
(* surname and name, letters or nothing for the patronymic, a non-blank    *)
(* address, a phone that is the pattern in full                            *)
ValidFields(d) ==
    /\ isalpha(replace_spaces(d.surname))
    /\ isalpha(replace_spaces(d.name))
    /\ (d.patronymic = EmptyStr \/ isalpha(replace_spaces(d.patronymic)))
    /\ strip(d.address) # <<>>
    /\ PhoneBody(d.phone)

WellFormed(f) ==
    /\ f.tag = "list"
    /\ \A i \in 1..Len(f.recs) :
        /\ DOMAIN f.recs[i] = FieldNames
        /\ ValidFields(f.recs[i])
        /\ f.recs[i].client_id # None

(* C15: loading a repository from a well-formed file of valid records      *)
(* (here: records that carry their identifiers) and saving it again with   *)
(* nothing in between leaves the same ordered records in the file, and the *)
(* loaded in-memory collection equals the file's records in order.         *)
C15_RoundTrip ==
    (ret.op = "__init__" /\ WellFormed(file))
    => /\ ret.exc = ""
       /\ InMemory(clients) = file
       /\ save_all(clients) = file

(* C16: add_client with an empty patronymic and otherwise valid fields     *)
(* succeeds and the new record's patronymic is the empty string.           *)
C16_EmptyPatronymic ==
    (ret.op = "add_client" /\ ret.args[1].patronymic = EmptyStr /\ ValidFields(ret.args[1]))
    => /\ ret.exc = ""
       /\ clients # <<>>
       /\ clients[Len(clients)].patronymic = EmptyStr

(* C19: add_client with fields that fail validation raises the validation  *)
(* error and leaves the in-memory collection, the file and the next        *)
(* identifier as they were.                                                *)
C19_FailedAddNoEffect ==
    [][(ret'.op = "add_client" /\ ClientExc(ret'.args[1]) # "")
        => /\ ret'.exc = "ValueError"
           /\ clients' = clients
           /\ file' = file
           /\ get_new_client_id(clients') = get_new_client_id(clients)]_vars

C19_Witness ==
    /\ ret.op = "add_client"
    /\ ret.exc = "ValueError"
    /\ clients # <<>>

(* C17: every construction of ClientRepDB that returns, with whatever      *)
(* credentials, returns the one object created first, which keeps the      *)
(* credentials and the connection of the first construction; at most one   *)
(* connection is ever opened and create_table runs at most once.           *)
C17_SingleInstance ==
    /\ dbLog.objects <= 1
    /\ dbLog.opened <= 1
    /\ dbLog.tableRuns <= 1
    /\ (ret.op = "ClientRepDB" /\ ret.exc = "") =>
          /\ ret.value = Some(1)
          /\ instance.exists
          /\ instance.oid = 1
          /\ Some(instance.creds) = dbLog.first
          /\ (instance.conn # None => instance.conn[1].id = 1)

C17_Witness ==
    /\ ret.op = "ClientRepDB"
    /\ ret.exc = ""
    /\ Some(ret.args[1]) # dbLog.first
    /\ instance.conn # None

(* C18: sort_by_field of the database backend issues no statement that     *)
(* contains a field name outside the columns of the clients table.         *)
C18_SortFieldAllowList ==
    lastQuery.field # "" => lastQuery.field \in Columns

(* C20: a construction of ClientRepDB that returns hands back an instance  *)
(* with an open connection and the clients table ensured, also after a     *)
(* first construction that failed to connect.                              *)
C20_ReturnedInstanceUsable ==
    (ret.op = "ClientRepDB" /\ ret.exc = "") =>
        /\ instance.exists
        /\ instance.conn # None
        /\ ~instance.conn[1].closed
        /\ dbLog.ensured

DataTuples(cl) == {DataOf(cl[i]) : i \in 1..Len(cl)}

(* how many times each five-field tuple occurs in a collection *)
DataBag(cl) == [d \in DataTuples(cl) |-> Cardinality({i \in 1..Len(cl) : DataOf(cl[i]) = d})]

(* C21: whenever get_count() returns on a constructed file repository,     *)
(* read_all() in that state returns, the count equals the number of        *)
(* records read_all() returns, and the multiset of five-field data tuples  *)
(* read_all() returns equals that of the in-memory collection; order and   *)
(* identifiers that are null in memory may differ.                         *)
C21_CountMatchesReadAll ==
    Returned("get_count") =>
        LET stored == read_all(kind, file)
        IN /\ stored.exc = ""
           /\ ret.value = Len(stored.value)
           /\ DataBag(stored.value) = DataBag(clients)

C21_Witness ==
    /\ ret.op = "get_count"
    /\ ret.value = 2
    /\ \E i \in 1..Len(clients) : get_client_id(clients[i]) = None
    /\ Len(read_all(kind, file).value) = 2
    /\ DataOf(read_all(kind, file).value[1]) # DataOf(clients[1])

====
